---- MODULE Spec2Model ----
(***************************************************************************)
(* A model of evidently/future/datasets.py: the typed tabular Dataset      *)
(* (PandasDataset), its schema (DataDefinition) resolution, the per-column *)
(* statistics and the descriptor pipeline.                                 *)
(*                                                                         *)
(* Python objects that can be aliased (DataFrame, DataDefinition) live in  *)
(* heaps (sequences indexed by object id); a PandasDataset holds object    *)
(* ids, so that sharing and copying are visible in the state.              *)
(***************************************************************************)
EXTENDS Integers, Sequences, FiniteSets, TLC

\* ------------------------------------------------------------------ bounds
MaxDatasets == 2     \* PandasDataset objects alive at once
MaxColumns == 5      \* columns of one DataFrame
MaxCalls == 2        \* add_descriptor / add_descriptors calls in one run
MaxSeriesLen == 4    \* rows of a Series handed to the statistics functions
MaxLabels == 3       \* labels of a label_stats map
MaxCount == 3        \* count of one label in a label_stats map

\* ------------------------------------------------------- Optional[...] values
\* Optional[T]: None is the empty tuple, a present value x is <<x>>.
None == <<>>
Some(x) == <<x>>
IsNone(o) == o = <<>>
Get(o) == o[1]
\* x or []
OrEmpty(o) == IF IsNone(o) THEN <<>> ELSE Get(o)
Contains(seq, x) == \E i \in 1..Len(seq) : seq[i] = x

\* Result of a call that may raise: the returned value, or the exception.
Ok(v) == [ok |-> TRUE, v |-> v]
Raise(e) == [ok |-> FALSE, error |-> e]

\* ------------------------------------------------------------ cell values
Num(n) == [k |-> "num", v |-> n]
Str(s) == [k |-> "str", v |-> s]
Inf == [k |-> "inf", v |-> 1]
NegInf == [k |-> "inf", v |-> -1]
NaN == [k |-> "nan"]
Timestamp(n) == [k |-> "datetime", v |-> n]
ListValue == [k |-> "list"]

\* pd.Series: a storage dtype name and the values.
Series(dtype, data) == [dtype |-> dtype, data |-> data]

isna(x) == x.k = "nan"
dropna(data) == SelectSeq(data, LAMBDA x : ~isna(x))
\* Series.count(): the number of non-missing values.
count(data) == Len(dropna(data))
\* Series.nunique(): the number of distinct non-missing values.
nunique(data) == Cardinality({data[i] : i \in {j \in 1..Len(data) : ~isna(data[j])}})

\* ------------------------------------------------------- float arithmetic
RECURSIVE gcd(_, _)
gcd(a, b) == IF b = 0 THEN a ELSE gcd(b, a % b)

\* A float result, kept exact: a reduced fraction, or nan.
Frac(n, d) == [num |-> n \div gcd(n, d), den |-> d \div gcd(n, d)]
FloatNaN == [num |-> 0, den |-> 0]
\* a / b of two non-negative integers where b is a numpy integer
\* (Series.count()): division by zero does not raise, 0 / 0 is nan.
truediv(a, b) == IF b = 0 THEN FloatNaN ELSE Frac(a, b)

\* ------------------------------------------------------------ ColumnType
Numerical == "num"
Categorical == "cat"
Text == "text"
Datetime == "datetime"
Date == "date"
Id == "id"
List == "list"
Unknown == "unknown"

\* ------------------------------------------------------ infer_column_type
INTEGER_CARDINALITY_LIMIT == 10

\* nunique() > count() * 0.5, in integers.
MostlyDistinct(data) == 2 * nunique(data) > count(data)

isstr(x) == x.k = "str"
islist(x) == x.k = "list"

\* dtype "object": without_na.iloc[0] and without_na.iloc[-1] are read with no
\* check that without_na is non-empty, an IndexError when it is empty.
infer_first_last(data, without_na) ==
    IF Len(without_na) = 0 THEN Raise("IndexError")
    ELSE IF isstr(without_na[1]) /\ isstr(without_na[Len(without_na)])
         THEN (IF MostlyDistinct(data) THEN Ok(Text) ELSE Ok(Categorical))
    ELSE IF islist(without_na[1]) /\ islist(without_na[Len(without_na)]) THEN Ok(List)
    ELSE Ok(Unknown)

\* A variant that gives Unknown when there is no value to inspect.
infer_object_type_lenient(data) ==
    IF dropna(data) = <<>> THEN Ok(Unknown) ELSE infer_first_last(data, dropna(data))

infer_object_type(data) == infer_first_last(data, dropna(data))

infer_column_type(column_data) ==
    IF column_data.dtype \in {"float32", "float64"} THEN Ok(Numerical)
    ELSE IF column_data.dtype \in {"int32", "int64"}
         THEN (IF nunique(column_data.data) <= INTEGER_CARDINALITY_LIMIT
               THEN Ok(Categorical) ELSE Ok(Numerical))
    ELSE IF column_data.dtype = "string"
         THEN (IF MostlyDistinct(column_data.data) THEN Ok(Text) ELSE Ok(Categorical))
    ELSE IF column_data.dtype = "object" THEN infer_object_type(column_data.data)
    ELSE IF column_data.dtype \in {"bool", "category"} THEN Ok(Categorical)
    ELSE IF column_data.dtype = "datetime64[ns]" THEN Ok(Datetime)
    ELSE Ok(Unknown)

\* ------------------------------------------------------------- statistics
StatCountValue(c, share) == [count |-> c, share |-> share]
GeneralColumnStats == [missing_values |-> StatCountValue(0, Frac(0, 1))]

isinf(x) == x.k = "inf"

\* Order of the numeric values: -inf < every number < +inf.
NumLe(a, b) ==
    \/ a = NegInf
    \/ b = Inf
    \/ a.k = "num" /\ b.k = "num" /\ a.v <= b.v

NonMissing(data) == {data[i] : i \in {j \in 1..Len(data) : ~isna(data[j])}}
MaxOf(vals) == IF vals = {} THEN NaN ELSE CHOOSE x \in vals : \A y \in vals : NumLe(y, x)
MinOf(vals) == IF vals = {} THEN NaN ELSE CHOOSE x \in vals : \A y \in vals : NumLe(x, y)

\* Series.max() / Series.min(): over the non-missing values, nan when none.
SeriesMax(data) == MaxOf(NonMissing(data))
SeriesMin(data) == MinOf(NonMissing(data))

\* data.groupby(np.isinf(data)).count().get(True, 0): the number of non-missing
\* values in the group whose key np.isinf is True.
infinite_count_of(data) == Len(SelectSeq(data, isinf))

\* StatCountValue(infinite_count, infinite_count / data.count()): the divisor
\* is a numpy integer.
infinite_stat(infinite_count, data) ==
    StatCountValue(infinite_count, truediv(infinite_count, count(data)))

\* np.isinf has no loop for object or string storage: TypeError.  The mean,
\* std and quantile fields are not part of any property below and are left out.
collect_numerical_stats(column_data) ==
    IF column_data.dtype \in {"object", "string"} THEN Raise("TypeError")
    ELSE Ok([max |-> SeriesMax(column_data.data),
             min |-> SeriesMin(column_data.data),
             infinite |-> infinite_stat(infinite_count_of(column_data.data),
                                        column_data.data)])

AppendNew(seen, x) == IF isna(x) \/ Contains(seen, x) THEN seen ELSE Append(seen, x)

\* The distinct non-missing values in first-seen order.
RECURSIVE FirstSeen(_)
FirstSeen(data) ==
    IF data = <<>> THEN <<>>
    ELSE AppendNew(FirstSeen(SubSeq(data, 1, Len(data) - 1)), data[Len(data)])

Occurrences(data, x) == Len(SelectSeq(data, LAMBDA y : y = x))

\* The first label of the greatest count.
MostFrequent(labels, data) ==
    CHOOSE i \in 1..Len(labels) :
        /\ \A j \in 1..Len(labels) :
              Occurrences(data, labels[j]) <= Occurrences(data, labels[i])
        /\ \A j \in 1..(i - 1) :
              Occurrences(data, labels[j]) < Occurrences(data, labels[i])

Without(seq, i) == [j \in 1..(Len(seq) - 1) |-> IF j < i THEN seq[j] ELSE seq[j + 1]]

\* The labels in descending count, labels of equal count in first-seen order.
RECURSIVE SortByCount(_, _)
TakeMostFrequent(labels, data, best) ==
    <<labels[best]>> \o SortByCount(Without(labels, best), data)
SortByCount(labels, data) ==
    IF labels = <<>> THEN <<>>
    ELSE TakeMostFrequent(labels, data, MostFrequent(labels, data))

CountsOf(ordered, data) ==
    [i \in 1..Len(ordered) |-> <<ordered[i], Occurrences(data, ordered[i])>>]

\* Series.value_counts(): the <<label, count>> pairs.
value_counts(data) == CountsOf(SortByCount(FirstSeen(data), data), data)

LabelStats(c) == [count |-> c]

\* label_stats is a dict: here the sequence of its items in iteration order.
label_stats_of(counts, total_count) ==
    [i \in 1..Len(counts) |->
        [label |-> counts[i][1],
         stats |-> LabelStats(StatCountValue(counts[i][2],
                                             truediv(counts[i][2], total_count)))]]

\* value_counts hashes the values: TypeError on a list.
collect_categorical_stats(column_data) ==
    IF \E i \in 1..Len(column_data.data) : islist(column_data.data[i])
    THEN Raise("TypeError")
    ELSE Ok([unique_count |-> nunique(column_data.data),
             label_stats |-> label_stats_of(value_counts(column_data.data),
                                            count(column_data.data))])

ColumnStats(numerical_stats, categorical_stats) ==
    [general_stats |-> GeneralColumnStats,
     numerical_stats |-> numerical_stats,
     categorical_stats |-> categorical_stats]

\* A raised exception passes through, a returned value fills its field.
NumericalOnly(numerical_stats) ==
    IF numerical_stats.ok THEN Ok(ColumnStats(Some(numerical_stats.v), None))
    ELSE numerical_stats
CategoricalOnly(categorical_stats) ==
    IF categorical_stats.ok THEN Ok(ColumnStats(None, Some(categorical_stats.v)))
    ELSE categorical_stats

\* PandasDataset._collect_stats
collect_stats(column_type, column_data) ==
    IF column_type = Numerical
    THEN NumericalOnly(collect_numerical_stats(column_data))
    ELSE IF column_type = Categorical
    THEN CategoricalOnly(collect_categorical_stats(column_data))
    ELSE Ok(ColumnStats(None, None))

\* StatCountValue is a dataclass declared without order=True: it has no
\* __lt__, so a < b on two StatCountValue objects raises TypeError.
StatCountValueLt(a, b) == Raise("TypeError")

\* The loop of CategoricalColumnStats.most_common over label_stats.items(),
\* from item i on, with the current most_common (an index into label_stats).
RECURSIVE most_common_loop(_, _, _)
most_common_compared(label_stats, i, most_common, lt) ==
    IF ~lt.ok THEN lt
    ELSE most_common_loop(label_stats, i + 1, IF lt.v THEN Some(i) ELSE most_common)
most_common_loop(label_stats, i, most_common) ==
    IF i > Len(label_stats) THEN Ok(most_common)
    ELSE IF IsNone(most_common) THEN most_common_loop(label_stats, i + 1, Some(i))
    ELSE most_common_compared(label_stats, i, most_common,
             StatCountValueLt(label_stats[Get(most_common)].stats.count,
                              label_stats[i].stats.count))

most_common_result(label_stats, found) ==
    IF ~found.ok THEN found
    ELSE IF IsNone(found.v) THEN Ok(None)
    ELSE Ok(Some(<<label_stats[Get(found.v)].label, label_stats[Get(found.v)].stats>>))

\* CategoricalColumnStats.most_common: None, or the (label, LabelStats) pair.
most_common(label_stats) ==
    most_common_result(label_stats, most_common_loop(label_stats, 1, None))

\* --------------------------------------------------------- DataDefinition
\* DataDefinition.__init__: the descriptor lists default to a new empty list.
\* (classification, regression, llm and ranking play no part in resolution,
\* typing or statistics.)
DataDefinition(id_column, timestamp, numerical_columns, categorical_columns, text_columns, datetime_columns, numerical_descriptors, categorical_descriptors) ==
    [id_column |-> id_column,
     timestamp |-> timestamp,
     numerical_columns |-> numerical_columns,
     categorical_columns |-> categorical_columns,
     text_columns |-> text_columns,
     datetime_columns |-> datetime_columns,
     numerical_descriptors |-> OrEmpty(numerical_descriptors),
     categorical_descriptors |-> OrEmpty(categorical_descriptors)]

get_numerical_columns(dd) == OrEmpty(dd.numerical_columns) \o dd.numerical_descriptors
get_categorical_columns(dd) == OrEmpty(dd.categorical_columns) \o dd.categorical_descriptors
get_text_columns(dd) == OrEmpty(dd.text_columns)
get_datetime_columns(dd) == OrEmpty(dd.datetime_columns)

get_column_type(dd, column_name) ==
    IF Contains(get_numerical_columns(dd), column_name) THEN Numerical
    ELSE IF Contains(get_categorical_columns(dd), column_name) THEN Categorical
    ELSE IF Contains(get_text_columns(dd), column_name) THEN Text
    ELSE IF Contains(get_datetime_columns(dd), column_name) THEN Datetime
    ELSE IF dd.timestamp = Some(column_name) THEN Date
    ELSE IF dd.id_column = Some(column_name) THEN Id
    ELSE Unknown

\* -------------------------------------------------------------- DataFrame
\* pd.DataFrame: the number of rows, the column names in order, and the
\* Series of each column.
DataFrame(rows, columns, series) == [rows |-> rows, columns |-> columns, series |-> series]

\* numerical / categorical / datetime / text .append(column)
Bucketed(found, column_type, column) ==
    IF column_type \in DOMAIN found
    THEN [found EXCEPT ![column_type] = Append(@, column)]
    ELSE found

\* The loop of _generate_data_definition over data.columns, from column i on:
\* the columns of each inferred type, or the exception of infer_column_type.
RECURSIVE infer_columns(_, _, _, _)
infer_columns_typed(data, reserved_fields, i, found, column_type) ==
    IF ~column_type.ok THEN column_type
    ELSE infer_columns(data, reserved_fields, i + 1,
                       Bucketed(found, column_type.v, data.columns[i]))
infer_columns(data, reserved_fields, i, found) ==
    IF i > Len(data.columns) THEN Ok(found)
    ELSE IF Contains(reserved_fields, data.columns[i])
    THEN infer_columns(data, reserved_fields, i + 1, found)
    ELSE infer_columns_typed(data, reserved_fields, i, found,
                             infer_column_type(data.series[data.columns[i]]))

\* timestamp=datetime[0] if len(datetime) == 1 else None
SoleDatetimeTimestamp(datetime) == IF Len(datetime) = 1 THEN Some(datetime[1]) ELSE None
\* datetime_columns=datetime if len(datetime) != 1 else []
SoleDatetimeExcluded(datetime) == IF Len(datetime) # 1 THEN datetime ELSE <<>>

generated_definition(found) ==
    IF ~found.ok THEN found
    ELSE Ok(DataDefinition(None,
                   SoleDatetimeTimestamp(found.v[Datetime]),
                   Some(found.v[Numerical]),
                   Some(found.v[Categorical]),
                   Some(found.v[Text]),
                   Some(SoleDatetimeExcluded(found.v[Datetime])),
                   None, None))

NoColumns == [c \in {Numerical, Categorical, Datetime, Text} |-> <<>>]

\* PandasDataset._generate_data_definition
generate_data_definition(data, reserved_fields) ==
    generated_definition(infer_columns(data, reserved_fields, 1, NoColumns))

\* The reserved_fields list built by PandasDataset.__init__.
reserved_fields_list(dd) ==
    dd.timestamp \o dd.id_column
    \o OrEmpty(dd.numerical_columns) \o OrEmpty(dd.categorical_columns)
    \o OrEmpty(dd.datetime_columns) \o OrEmpty(dd.text_columns)
    \o dd.numerical_descriptors \o dd.categorical_descriptors
reserved_fields_of(data_definition) ==
    IF IsNone(data_definition) THEN <<>> ELSE reserved_fields_list(Get(data_definition))

AllRolesSet(dd) ==
    /\ ~IsNone(dd.datetime_columns)
    /\ ~IsNone(dd.categorical_columns)
    /\ ~IsNone(dd.text_columns)
    /\ ~IsNone(dd.numerical_columns)

\* A variant that adopts the generated datetime_columns whatever the timestamp.
merged_datetime_generated(dd, generated) == generated.datetime_columns

\* The datetime_columns adopted when the user left them unset.
merged_datetime_columns(dd, generated) ==
    IF ~IsNone(dd.timestamp) /\ ~IsNone(generated.timestamp)
    THEN Some(<<Get(generated.timestamp)>>)
    ELSE generated.datetime_columns

\* The merge of a copy of the user's definition with the generated one.
merge_data_definition(dd, generated) ==
    [dd EXCEPT
        !.datetime_columns = IF IsNone(@) THEN merged_datetime_columns(dd, generated) ELSE @,
        !.numerical_columns = IF IsNone(@) THEN generated.numerical_columns ELSE @,
        !.categorical_columns = IF IsNone(@) THEN generated.categorical_columns ELSE @,
        !.text_columns = IF IsNone(@) THEN generated.text_columns ELSE @,
        !.timestamp = IF IsNone(@) /\ ~IsNone(generated.timestamp)
                      THEN generated.timestamp ELSE @]

merged_or_generated(data_definition, generated) ==
    IF ~generated.ok THEN generated
    ELSE IF IsNone(data_definition) THEN generated
    ELSE Ok(merge_data_definition(Get(data_definition), generated.v))

\* The value of self._data_definition set by PandasDataset.__init__, or the
\* exception raised on the way.
resolve_data_definition(data, data_definition) ==
    IF IsNone(data_definition) \/ ~AllRolesSet(Get(data_definition))
    THEN merged_or_generated(data_definition,
             generate_data_definition(data, reserved_fields_of(data_definition)))
    ELSE Ok(Get(data_definition))

\* d[k] = v on a dict.
DictSet(d, k, v) == [x \in DOMAIN d \cup {k} |-> IF x = k THEN v ELSE d[x]]
EmptyDict == [x \in {} |-> x]

\* The loop of PandasDataset.__init__ over data.columns, from column i on:
\* the column_stats dict, or the exception of _collect_stats.
RECURSIVE collect_column_stats(_, _, _, _)
collect_column_stats_set(data, dd, i, column_stats, stats) ==
    IF ~stats.ok THEN stats
    ELSE collect_column_stats(data, dd, i + 1,
                              DictSet(column_stats, data.columns[i], stats.v))
collect_column_stats(data, dd, i, column_stats) ==
    IF i > Len(data.columns) THEN Ok(column_stats)
    ELSE collect_column_stats_set(data, dd, i, column_stats,
             collect_stats(get_column_type(dd, data.columns[i]),
                           data.series[data.columns[i]]))

DatasetStats(rows, columns, column_stats) ==
    [row_count |-> rows, column_count |-> columns, column_stats |-> column_stats]

init_stats(data, dd, column_stats) ==
    IF ~column_stats.ok THEN column_stats
    ELSE Ok([data_definition |-> dd,
             dataset_stats |-> DatasetStats(data.rows, Len(data.columns), column_stats.v)])

init_resolved(data, dd) ==
    IF ~dd.ok THEN dd
    ELSE init_stats(data, dd.v, collect_column_stats(data, dd.v, 1, EmptyDict))

\* PandasDataset.__init__: the resolved definition and the statistics of the
\* new object, or the exception.
PandasDatasetInit(data, data_definition) ==
    init_resolved(data, resolve_data_definition(data, data_definition))

\* ------------------------------------------------- DataFrame operations
\* data[key] = series: a new column goes last, an existing one is replaced.
frame_setitem(data, key, series) ==
    [data EXCEPT !.columns = IF Contains(@, key) THEN @ ELSE Append(@, key),
                 !.series = DictSet(@, key, series)]

\* Element-wise ==: a missing value equals nothing.
cell_eq(x, y) == ~isna(x) /\ ~isna(y) /\ x = y

\* The positions of the True entries of a boolean mask over 1..n, in order.
RECURSIVE mask_positions(_, _)
mask_positions(mask, n) ==
    IF n = 0 THEN <<>>
    ELSE IF mask[n] THEN Append(mask_positions(mask, n - 1), n)
    ELSE mask_positions(mask, n - 1)

\* data[mask]: a new DataFrame of the rows at the positions keep.
take_rows(data, keep) ==
    DataFrame(Len(keep), data.columns,
              [c \in DOMAIN data.series |->
                  Series(data.series[c].dtype,
                         [j \in 1..Len(keep) |-> data.series[c].data[keep[j]]])])

\* data[column_name] == label
eq_mask(data, column_name, label) ==
    [i \in 1..data.rows |-> cell_eq(data.series[column_name].data[i], label)]

\* data[data[column_name] == label]
filter_rows(data, column_name, label) ==
    take_rows(data, mask_positions(eq_mask(data, column_name, label), data.rows))

\* ------------------------------------------------------------ descriptors
DatasetColumn(type, data) == [type |-> type, data |-> data]

\* key = f"{alias}_{index}"
suffixed(alias, index) == alias \o "_" \o ToString(index)

\* The while loop of _determine_desccriptor_column_name, with the current index.
RECURSIVE determine_from(_, _, _, _)
determine_from(alias, columns, key, index) ==
    IF Contains(columns, key)
    THEN determine_from(alias, columns, suffixed(alias, index), index + 1)
    ELSE key

\* A variant whose index starts at 0.
determine_from_zero(alias, columns) == determine_from(alias, columns, alias, 0)

determine_desccriptor_column_name(alias, columns) == determine_from(alias, columns, alias, 1)

\* Descriptor.generate_data is the extension point.  These descriptors stand
\* for its implementations: each returns one DatasetColumn, or a dict of them
\* (as the sequence of its items), or raises.
Descriptor(alias, kind) == [alias |-> alias, kind |-> kind]

ScoreColumn(rows) ==
    DatasetColumn(Numerical, Series("float64", [i \in 1..rows |-> IF i = 1 THEN Inf ELSE Num(i)]))
LabelColumn(rows) ==
    DatasetColumn(Categorical,
                  Series("object", [i \in 1..rows |-> IF i = 2 THEN Str("b") ELSE Str("a")]))
TextColumn(rows) ==
    DatasetColumn(Text, Series("object", [i \in 1..rows |-> Str(suffixed("t", i))]))
\* A column declared Numerical whose values are strings.
StringAsNumberColumn(rows) ==
    DatasetColumn(Numerical, Series("object", [i \in 1..rows |-> Str("n/a")]))

Single(column) == [single |-> TRUE, column |-> column]
Dict(items) == [single |-> FALSE, items |-> items]

generate_data(descriptor, data) ==
    CASE descriptor.kind = "numerical" -> Ok(Single(ScoreColumn(data.rows)))
      [] descriptor.kind = "pair" ->
            Ok(Dict(<< <<"score", TextColumn(data.rows)>>,
                       <<"score_1", LabelColumn(data.rows)>> >>))
      [] descriptor.kind = "pair_unparsed" ->
            Ok(Dict(<< <<"score", ScoreColumn(data.rows)>>,
                       <<"raw", StringAsNumberColumn(data.rows)>> >>))
      [] descriptor.kind = "raises" -> Raise("ValueError")

\* if isinstance(new_columns, DatasetColumn): new_columns = {descriptor.alias: new_columns}
new_columns_items(descriptor, generated) ==
    IF generated.single THEN << <<descriptor.alias, generated.column>> >>
    ELSE generated.items

\* A variant that leaves column_count as it is.
not_counted(dataset_stats) == dataset_stats

\* self._dataset_stats.column_count += 1
counted(dataset_stats) == [dataset_stats EXCEPT !.column_count = @ + 1]

\* A variant that files every non-numerical column as categorical.
with_descriptor_else_categorical(dd, key, type) ==
    [dd EXCEPT
        !.numerical_descriptors = IF type = Numerical THEN Append(@, key) ELSE @,
        !.categorical_descriptors = IF type # Numerical THEN Append(@, key) ELSE @]

\* The appends of add_column to the descriptor lists.
with_descriptor(dd, key, type) ==
    [dd EXCEPT
        !.numerical_descriptors = IF type = Numerical THEN Append(@, key) ELSE @,
        !.categorical_descriptors = IF type = Categorical THEN Append(@, key) ELSE @]

add_column_stats(dataset_stats, data, dd, key, column, stats) ==
    IF ~stats.ok
    THEN [dataset_stats |-> counted(dataset_stats), data |-> data, dd |-> dd,
          error |-> stats.error]
    ELSE [dataset_stats |-> [counted(dataset_stats) EXCEPT
                                !.column_stats = DictSet(@, key, stats.v)],
          data |-> frame_setitem(data, key, column.data),
          dd |-> with_descriptor(dd, key, column.type),
          error |-> ""]

\* PandasDataset.add_column on the object's statistics, DataFrame and
\* definition: their new values and the exception raised, if any.
add_column(dataset_stats, data, dd, key, column) ==
    add_column_stats(dataset_stats, data, dd, key, column,
                     collect_stats(column.type, column.data))

\* ------------------------------------------------------------------ state
VARIABLES
    frames,       \* heap of DataFrame objects, indexed by object id
    definitions,  \* heap of DataDefinition objects, indexed by object id
    datasets,     \* the PandasDataset objects: data and data_definition are
                  \* object ids, dataset_stats is held by value
    call,         \* the add_descriptor(s) call in progress, or None
    last,         \* the last operation or step, its arguments and its exception
    origin,       \* history: the dataset each dataset was cut from by subdataset,
                  \* 0 for one built from the caller's objects
    calls,        \* the number of add_descriptor(s) calls entered so far
    stat_arg,     \* the argument of a statistics function applied on its own
    stat_ret      \* its result, or None before the application

vars == <<frames, definitions, datasets, origin, call, last, calls, stat_arg, stat_ret>>
dataset_vars == <<frames, definitions, datasets, origin, call, last, calls>>
stat_vars == <<stat_arg, stat_ret>>

\* ----------------------------------------------------------------- inputs
Strings(seq) == [i \in 1..Len(seq) |-> Str(seq[i])]
Timestamps(n) == [i \in 1..n |-> Timestamp(i)]

\* The caller's tables.
ReferenceFrame ==
    DataFrame(4, <<"segment", "value", "ts">>,
              [c \in {"segment", "value", "ts"} |->
                  CASE c = "segment" -> Series("object", Strings(<<"x", "y", "x", "x">>))
                    [] c = "value" -> Series("float64", <<Num(1), Inf, NaN, Num(2)>>)
                    [] c = "ts" -> Series("datetime64[ns]", Timestamps(4))])
CurrentFrame ==
    DataFrame(3, <<"score", "segment">>,
              [c \in {"score", "segment"} |->
                  CASE c = "score" -> Series("float64", <<Num(1), NegInf, Num(1)>>)
                    [] c = "segment" -> Series("object", Strings(<<"x", "x", "y">>))])

\* The caller's definitions: one with every role set, one partial.
FullDefinition ==
    DataDefinition(None, Some("ts"), Some(<<"value", "score">>), Some(<<"segment">>),
                   Some(<<>>), Some(<<>>), None, None)
PartialDefinition ==
    DataDefinition(Some("segment"), None, None, None, Some(<<>>), None, None, None)

Descriptors ==
    {Descriptor("score", "numerical"), Descriptor("features", "pair"),
     Descriptor("features", "pair_unparsed"), Descriptor("score", "raises")}

Step(op, ds, error, arg) == [op |-> op, ds |-> ds, error |-> error, arg |-> arg]

Init ==
    /\ frames = <<ReferenceFrame, CurrentFrame>>
    /\ definitions = <<FullDefinition, PartialDefinition>>
    /\ datasets = <<>>
    /\ origin = <<>>
    /\ call = None
    /\ last = Step("none", 0, "", <<>>)
    /\ calls = 0
    /\ stat_arg = None
    /\ stat_ret = None

\* ------------------------------------------------------------- operations
\* heap[ref] = object, where ref = Len(heap) + 1 allocates.
HeapPut(heap, ref, object) ==
    IF ref > Len(heap) THEN Append(heap, object) ELSE [heap EXCEPT ![ref] = object]

\* self._data = data: the object keeps the DataFrame object it is given.
data_ref(heap, data) == data

\* A variant that keeps the object it is given (no copy.deepcopy).
definition_ref_shared(heap, data_definition) ==
    IF data_definition = 0 THEN Len(heap) + 1 ELSE data_definition

\* The DataDefinition object a new PandasDataset holds: the generated one, or a
\* copy.deepcopy of the one it is given; a new object either way.
definition_ref(heap, data_definition) == Len(heap) + 1

PandasDataset(data, data_definition, dataset_stats) ==
    [data |-> data, data_definition |-> data_definition, dataset_stats |-> dataset_stats]

NewDatasetMade(op, arg, heap, data, ref, made) ==
    IF made.ok
    THEN /\ frames' = heap
         /\ origin' = Append(origin, IF op = "subdataset" THEN arg.parent ELSE 0)
         /\ definitions' = HeapPut(definitions, ref, made.v.data_definition)
         /\ datasets' = Append(datasets, PandasDataset(data, ref, made.v.dataset_stats))
         /\ last' = Step(op, Len(datasets) + 1, "", arg)
    ELSE /\ UNCHANGED <<frames, definitions, datasets, origin>>
         /\ last' = Step(op, 0, made.error, arg)

\* PandasDataset(heap[data], definitions[data_definition]), data_definition = 0
\* standing for None, with heap as the DataFrame objects.
NewDataset(op, arg, heap, data, data_definition) ==
    NewDatasetMade(op, arg, heap, data_ref(heap, data),
                   definition_ref(definitions, data_definition),
                   PandasDatasetInit(heap[data],
                                     IF data_definition = 0 THEN None
                                     ELSE Some(definitions[data_definition])))

\* Dataset.from_pandas(frames[data], definitions[data_definition])
Construct(data, data_definition) ==
    /\ IsNone(call)
    /\ Len(datasets) < MaxDatasets
    /\ NewDataset("construct", [data |-> data, data_definition |-> data_definition],
                  frames, data, data_definition)
    /\ UNCHANGED <<call, calls, stat_vars>>

\* A variant that passes no definition, so that the types are inferred again.
subdataset_definition_none(self) == 0

\* The definition subdataset passes on: self._data_definition.
subdataset_definition(self) == self.data_definition

\* self.subdataset(column_name, label): PandasDataset(self._data[...], self._data_definition)
SubdatasetOf(self, arg) ==
    IF Contains(frames[self.data].columns, arg.column_name)
    THEN NewDataset("subdataset", arg,
                    Append(frames, filter_rows(frames[self.data], arg.column_name, arg.label)),
                    Len(frames) + 1, subdataset_definition(self))
    ELSE /\ UNCHANGED <<frames, definitions, datasets, origin>>
         /\ last' = Step("subdataset", 0, "KeyError", arg)

\* datasets[d].subdataset(column_name, label)
Subdataset(d, column_name, label) ==
    /\ IsNone(call)
    /\ Len(datasets) < MaxDatasets
    /\ SubdatasetOf(datasets[d],
                    [parent |-> d, column_name |-> column_name, label |-> label])
    /\ UNCHANGED <<call, calls, stat_vars>>

\* The most columns the descriptors add.
RECURSIVE Width(_)
Width(descriptors) ==
    IF descriptors = <<>> THEN 0
    ELSE (IF Head(descriptors).kind \in {"pair", "pair_unparsed"} THEN 2 ELSE 1)
         + Width(Tail(descriptors))

\* A call may start while the columns it can add fit the bound.
Fits(d, descriptors) ==
    /\ Len(frames[datasets[d].data].columns) + Width(descriptors) <= MaxColumns
    /\ datasets[d].dataset_stats.column_count + Width(descriptors) <= MaxColumns

Frame(ds, descriptors, columns) == [ds |-> ds, descriptors |-> descriptors, columns |-> columns]

StartCall(op, d, descriptors) ==
    /\ IsNone(call)
    /\ Fits(d, descriptors)
    /\ calls < MaxCalls
    /\ calls' = calls + 1
    /\ call' = Some(Frame(d, descriptors, <<>>))
    /\ last' = Step(op, d, "", descriptors)
    /\ UNCHANGED <<frames, definitions, datasets, origin, stat_vars>>

\* datasets[d].add_descriptor(descriptor) is entered.
AddDescriptor(d, descriptor) == StartCall("add_descriptor", d, <<descriptor>>)

\* datasets[d].add_descriptors(descriptors) is entered.
AddDescriptors(d, descriptors) == StartCall("add_descriptors", d, descriptors)

\* What is left of the call after a step: None once the loops are over.
Remaining(ds, descriptors, columns) ==
    IF descriptors = <<>> /\ columns = <<>> THEN None
    ELSE Some(Frame(ds, descriptors, columns))

Generated(frame, descriptor, generated) ==
    IF generated.ok
    THEN /\ call' = Remaining(frame.ds, Tail(frame.descriptors),
                              new_columns_items(descriptor, generated.v))
         /\ last' = Step("generate_data", frame.ds, "", descriptor)
    ELSE /\ call' = None
         /\ last' = Step("generate_data", frame.ds, generated.error, descriptor)

GenerateFor(frame) ==
    Generated(frame, Head(frame.descriptors),
              generate_data(Head(frame.descriptors), frames[datasets[frame.ds].data]))

\* add_descriptor: descriptor.generate_data(self, options) of the next descriptor.
GenerateData ==
    /\ ~IsNone(call)
    /\ Get(call).columns = <<>>
    /\ Get(call).descriptors # <<>>
    /\ GenerateFor(Get(call))
    /\ UNCHANGED <<frames, definitions, datasets, origin, calls, stat_vars>>

ColumnAdded(frame, self, col, key, type, done) ==
    /\ frames' = [frames EXCEPT ![self.data] = done.data]
    /\ definitions' = [definitions EXCEPT ![self.data_definition] = done.dd]
    /\ datasets' = [datasets EXCEPT ![frame.ds].dataset_stats = done.dataset_stats]
    /\ call' = IF done.error = ""
               THEN Remaining(frame.ds, frame.descriptors, Tail(frame.columns))
               ELSE None
    /\ last' = Step("add_column", frame.ds, done.error,
                    [col |-> col, key |-> key, type |-> type])

AddColumnKeyed(frame, self, col, value, key) ==
    ColumnAdded(frame, self, col, key, value.type,
                add_column(self.dataset_stats, frames[self.data],
                           definitions[self.data_definition], key, value))

\* self.add_column(_determine_desccriptor_column_name(col, columns), value)
AddColumnFor(frame, self) ==
    AddColumnKeyed(frame, self, Head(frame.columns)[1], Head(frame.columns)[2],
                   determine_desccriptor_column_name(Head(frame.columns)[1],
                                                     frames[self.data].columns))

\* add_descriptor: the next iteration of the loop over new_columns.items().
AddColumn ==
    /\ ~IsNone(call)
    /\ Get(call).columns # <<>>
    /\ AddColumnFor(Get(call), datasets[Get(call).ds])
    /\ UNCHANGED <<origin, calls, stat_vars>>

DescriptorLists == {<<x>> : x \in Descriptors} \cup {<<x, y>> : x, y \in Descriptors}

\* The values a caller may filter on.
Labels(d, column_name) ==
    IF Contains(frames[datasets[d].data].columns, column_name)
    THEN {frames[datasets[d].data].series[column_name].data[i] :
             i \in 1..frames[datasets[d].data].rows}
    ELSE {Str("x")}

Next ==
    \/ \E data \in DOMAIN frames, dd \in {0} \cup DOMAIN definitions : Construct(data, dd)
    \/ \E d \in DOMAIN datasets :
          \E column_name \in {"segment", "score", "missing"} :
             \E label \in Labels(d, column_name) : Subdataset(d, column_name, label)
    \/ \E d \in DOMAIN datasets, descriptor \in Descriptors : AddDescriptor(d, descriptor)
    \/ \E d \in DOMAIN datasets, descriptors \in DescriptorLists : AddDescriptors(d, descriptors)
    \/ GenerateData
    \/ AddColumn

Spec == Init /\ [][Next]_vars

\* The descriptors whose generate_data and whose columns' statistics succeed.
SuccessfulDescriptors == {x \in Descriptors : x.kind \in {"numerical", "pair"}}
SuccessfulLists ==
    {<<x>> : x \in SuccessfulDescriptors} \cup {<<x, y>> : x, y \in SuccessfulDescriptors}

NextSuccessful ==
    \/ \E data \in DOMAIN frames, dd \in {0} \cup DOMAIN definitions : Construct(data, dd)
    \/ \E d \in DOMAIN datasets :
          \E column_name \in {"segment", "score", "missing"} :
             \E label \in Labels(d, column_name) : Subdataset(d, column_name, label)
    \/ \E d \in DOMAIN datasets, descriptor \in SuccessfulDescriptors :
          AddDescriptor(d, descriptor)
    \/ \E d \in DOMAIN datasets, descriptors \in SuccessfulLists :
          AddDescriptors(d, descriptors)
    \/ GenerateData
    \/ AddColumn

\* The runs in which every add_descriptor / add_descriptors call succeeds.
SpecSuccessful == Init /\ [][NextSuccessful]_vars
\* ------------------------------------------- schema resolution on its own
\* The columns a caller's table is made of, in table order: the first two
\* always, each of the others or not.
ColumnPool == <<"num", "cat", "txt", "t1", "t2", "blank">>
PoolSeries(c) ==
    CASE c = "num" -> Series("float64", <<Num(1), Num(2)>>)
      [] c = "cat" -> Series("object", Strings(<<"x", "x">>))
      [] c = "txt" -> Series("object", Strings(<<"p", "q">>))
      [] c = "t1" -> Series("datetime64[ns]", Timestamps(2))
      [] c = "t2" -> Series("datetime64[ns]", Timestamps(2))
      [] c = "blank" -> Series("object", <<NaN, NaN>>)
PoolFrame(chosen) ==
    DataFrame(2, SelectSeq(ColumnPool, LAMBDA c : c \in chosen),
              [c \in chosen |-> PoolSeries(c)])
PoolFrames == {PoolFrame({"num", "cat"} \cup more) : more \in SUBSET {"txt", "t1", "t2", "blank"}}

\* The definitions a caller passes: each role set unset, empty or naming
\* columns, with or without a timestamp, an id column and descriptors.
PoolDefinitions ==
    {DataDefinition(id_column, timestamp, numerical_columns, categorical_columns,
                    text_columns, datetime_columns, None, categorical_descriptors) :
        id_column \in {None, Some("cat")},
        timestamp \in {None, Some("t1"), Some("num")},
        numerical_columns \in {None, Some(<<>>), Some(<<"num">>)},
        categorical_columns \in {None, Some(<<"cat">>)},
        text_columns \in {None, Some(<<>>), Some(<<"blank">>)},
        datetime_columns \in {None, Some(<<>>), Some(<<"t2">>)},
        categorical_descriptors \in {None, Some(<<"txt">>)}}

InitResolve ==
    /\ frames \in {<<data>> : data \in PoolFrames}
    /\ definitions \in {<<data_definition>> : data_definition \in PoolDefinitions}
    /\ datasets = <<>>
    /\ origin = <<>>
    /\ call = None
    /\ last = Step("none", 0, "", <<>>)
    /\ calls = 0
    /\ stat_arg = None
    /\ stat_ret = None

\* Dataset.from_pandas(data) / Dataset.from_pandas(data, data_definition)
NextResolve ==
    \E data \in DOMAIN frames, data_definition \in 0..Len(definitions) :
        Construct(data, data_definition)

SpecResolve == InitResolve /\ [][NextResolve]_vars

\* ------------------------------------------- the statistics on their own
\* The sequences over a set of values, up to a length.
SeqsUpTo(S, n) == UNION {[1..m -> S] : m \in 0..n}

FloatValues == {Num(1), Inf, NegInf, NaN}
ObjectValues == {Str("A"), Str("B"), NaN}

\* The columns handed to _collect_stats: a column type and a Series.
SeriesInputs ==
    {Series("float64", data) : data \in SeqsUpTo(FloatValues, MaxSeriesLen)}
    \cup {Series("object", data) : data \in SeqsUpTo(ObjectValues, MaxSeriesLen)}
ColumnInputs ==
    [fn : {"collect_stats"}, column_type : {Numerical, Categorical, Text},
     column_data : SeriesInputs]

LabelNames == {"A", "B", "C", "D"}
Total(counts) == LET RECURSIVE Sum(_)
                     Sum(i) == IF i = 0 THEN 0 ELSE counts[i] + Sum(i - 1)
                 IN Sum(Len(counts))
LabelStatsDict(labels, counts) ==
    [i \in 1..Len(labels) |->
        [label |-> Str(labels[i]),
         stats |-> LabelStats(StatCountValue(counts[i], truediv(counts[i], Total(counts))))]]
\* The label maps of a CategoricalColumnStats: distinct labels in any order,
\* each with a positive count.
LabelMaps ==
    UNION {{LabelStatsDict(labels, counts) :
               labels \in {l \in [1..m -> LabelNames] :
                              \A i, j \in 1..m : l[i] = l[j] => i = j},
               counts \in [1..m -> 1..MaxCount]} : m \in 0..MaxLabels}
MapInputs == [fn : {"most_common"}, label_stats : LabelMaps]

InitStats ==
    /\ frames = <<>>
    /\ definitions = <<>>
    /\ datasets = <<>>
    /\ origin = <<>>
    /\ call = None
    /\ last = Step("none", 0, "", <<>>)
    /\ calls = 0
    /\ stat_arg \in ColumnInputs \cup MapInputs
    /\ stat_ret = None

\* self._collect_stats(column_type, data)
CollectStats ==
    /\ IsNone(stat_ret)
    /\ stat_arg.fn = "collect_stats"
    /\ stat_ret' = Some(collect_stats(stat_arg.column_type, stat_arg.column_data))
    /\ UNCHANGED <<dataset_vars, stat_arg>>

\* CategoricalColumnStats(unique_count, label_stats).most_common
MostCommon ==
    /\ IsNone(stat_ret)
    /\ stat_arg.fn = "most_common"
    /\ stat_ret' = Some(most_common(stat_arg.label_stats))
    /\ UNCHANGED <<dataset_vars, stat_arg>>

NextStats ==
    \/ CollectStats
    \/ MostCommon

SpecStats == InitStats /\ [][NextStats]_vars


\* --------------------------------------- classification specs on their own
\* A variant that wants both prediction fields next to the target.
incomplete_without_both(target, prediction_labels, prediction_probas) ==
    IsNone(target) \/ IsNone(prediction_labels) \/ IsNone(prediction_probas)

\* target is None or (prediction_labels is None and prediction_probas is None)
incomplete(target, prediction_labels, prediction_probas) ==
    IsNone(target) \/ (IsNone(prediction_labels) /\ IsNone(prediction_probas))

\* BinaryClassification.__init__: the object's fields, or ValueError.
BinaryClassification(name, target, prediction_labels, prediction_probas, pos_label, labels) ==
    IF /\ IsNone(target)
       /\ IsNone(prediction_labels)
       /\ IsNone(prediction_probas)
       /\ IsNone(pos_label)
       /\ IsNone(labels)
    THEN Ok([name |-> name, target |-> "target", prediction_labels |-> None,
             prediction_probas |-> Some("prediction"), pos_label |-> 1, labels |-> None])
    ELSE IF incomplete(target, prediction_labels, prediction_probas)
    THEN Raise("ValueError")
    ELSE Ok([name |-> name, target |-> Get(target), prediction_labels |-> prediction_labels,
             prediction_probas |-> prediction_probas,
             pos_label |-> IF ~IsNone(pos_label) THEN Get(pos_label) ELSE 1,
             labels |-> labels])

\* MulticlassClassification.__init__: the object's fields, or ValueError.
MulticlassClassification(name, target, prediction_labels, prediction_probas, labels) ==
    IF /\ IsNone(target)
       /\ IsNone(prediction_labels)
       /\ IsNone(prediction_probas)
       /\ IsNone(labels)
    THEN Ok([name |-> name, target |-> "target", prediction_labels |-> Some("prediction"),
             prediction_probas |-> None, labels |-> None])
    ELSE IF incomplete(target, prediction_labels, prediction_probas)
    THEN Raise("ValueError")
    ELSE Ok([name |-> name, target |-> Get(target), prediction_labels |-> prediction_labels,
             prediction_probas |-> prediction_probas, labels |-> labels])

\* The keyword arguments a caller passes; None is an omitted argument.
TaskNames == {"default", "churn"}
TargetArguments == {None, Some("t"), Some("target")}
LabelsArguments == {None, Some([neg |-> 0, pos |-> 1])}
BinaryArguments ==
    [fn : {"BinaryClassification"}, name : TaskNames, target : TargetArguments,
     prediction_labels : {None, Some("label")},
     prediction_probas : {None, Some("proba")},
     pos_label : {None, Some(0), Some(2)},
     labels : LabelsArguments]
MulticlassArguments ==
    [fn : {"MulticlassClassification"}, name : TaskNames, target : TargetArguments,
     prediction_labels : {None, Some("label")},
     prediction_probas : {None, Some(<<"proba_a", "proba_b">>)},
     labels : LabelsArguments]

InitClassification ==
    /\ frames = <<>>
    /\ definitions = <<>>
    /\ datasets = <<>>
    /\ origin = <<>>
    /\ call = None
    /\ last = Step("none", 0, "", <<>>)
    /\ calls = 0
    /\ stat_arg \in BinaryArguments \cup MulticlassArguments
    /\ stat_ret = None

\* BinaryClassification(name=..., target=..., ...)
MakeBinary ==
    /\ IsNone(stat_ret)
    /\ stat_arg.fn = "BinaryClassification"
    /\ stat_ret' = Some(BinaryClassification(stat_arg.name, stat_arg.target,
                                             stat_arg.prediction_labels,
                                             stat_arg.prediction_probas,
                                             stat_arg.pos_label, stat_arg.labels))
    /\ UNCHANGED <<dataset_vars, stat_arg>>

\* MulticlassClassification(name=..., target=..., ...)
MakeMulticlass ==
    /\ IsNone(stat_ret)
    /\ stat_arg.fn = "MulticlassClassification"
    /\ stat_ret' = Some(MulticlassClassification(stat_arg.name, stat_arg.target,
                                                 stat_arg.prediction_labels,
                                                 stat_arg.prediction_probas,
                                                 stat_arg.labels))
    /\ UNCHANGED <<dataset_vars, stat_arg>>

NextClassification ==
    \/ MakeBinary
    \/ MakeMulticlass

SpecClassification == InitClassification /\ [][NextClassification]_vars

\* ----------------------------------------------------------------- claims
Range(seq) == {seq[i] : i \in 1..Len(seq)}
IsPrefix(a, b) == Len(a) <= Len(b) /\ SubSeq(b, 1, Len(a)) = a

\* The step is an iteration of add_descriptor's loop: only AddColumn is
\* enabled while columns of a descriptor are pending.
AddingColumn == ~IsNone(call) /\ Get(call).columns # <<>>
\* The dataset, the proposed name and the column of that iteration.
Adder == Get(call).ds
Proposed == Head(Get(call).columns)[1]
ProposedColumn == Head(Get(call).columns)[2]
Appended == AddingColumn /\ last'.error = ""

\* No other dataset holds the table of dataset d.
SoleUser(d) == \A e \in DOMAIN datasets : e # d => datasets[e].data # datasets[d].data

StatsMatchTable(d) ==
    /\ datasets[d].dataset_stats.column_count = Len(frames[datasets[d].data].columns)
    /\ DOMAIN datasets[d].dataset_stats.column_stats = Range(frames[datasets[d].data].columns)
    /\ datasets[d].dataset_stats.row_count = frames[datasets[d].data].rows

AppendCountsOnce ==
    Appended =>
        /\ datasets'[Adder].dataset_stats.column_count
              = datasets[Adder].dataset_stats.column_count + 1
        /\ Cardinality(DOMAIN datasets'[Adder].dataset_stats.column_stats)
              = Cardinality(DOMAIN datasets[Adder].dataset_stats.column_stats) + 1
        /\ \A c \in DOMAIN datasets[Adder].dataset_stats.column_stats :
              /\ c \in DOMAIN datasets'[Adder].dataset_stats.column_stats
              /\ datasets'[Adder].dataset_stats.column_stats[c]
                    = datasets[Adder].dataset_stats.column_stats[c]
        /\ datasets'[Adder].dataset_stats.row_count = datasets[Adder].dataset_stats.row_count

\* C1: the statistics of a dataset that alone uses its table match the table
\* after construction and after every successful descriptor addition (column
\* count = number of columns, stats keys = column names, row count = rows),
\* and each appended column adds 1 to the column count and one stats entry,
\* leaving the earlier entries and the row count as they were.
C1_StatsMatchTable ==
    /\ [](\A d \in DOMAIN datasets : SoleUser(d) => StatsMatchTable(d))
    /\ [](last.op \in {"generate_data", "add_column"} => last.error = "")
    /\ [][AppendCountsOnce]_vars

\* A dataset that alone uses its table, after three descriptor columns.
C1_Witness ==
    \E d \in DOMAIN datasets :
        /\ SoleUser(d)
        /\ Len(datasets) = 2
        /\ last.op = "add_column"
        /\ last.ds = d
        /\ datasets[d].dataset_stats.column_count = 5
        /\ frames[datasets[d].data].columns = <<"score", "segment", "score_1", "score_2", "score_1_1">>

\* The name an append uses for the proposed name N against the columns.
NameUsed(N, columns, used) ==
    IF ~Contains(columns, N) THEN used = N
    ELSE \E k \in 1..(Len(columns) + 1) :
            /\ used = suffixed(N, k)
            /\ ~Contains(columns, used)
            /\ \A j \in 1..(k - 1) : Contains(columns, suffixed(N, j))

AppendNamesColumn ==
    Appended =>
        /\ Len(frames'[datasets[Adder].data].columns)
              = Len(frames[datasets[Adder].data].columns) + 1
        /\ IsPrefix(frames[datasets[Adder].data].columns,
                    frames'[datasets[Adder].data].columns)
        /\ NameUsed(Proposed, frames[datasets[Adder].data].columns,
                    frames'[datasets[Adder].data].columns[
                        Len(frames'[datasets[Adder].data].columns)])
        /\ \A c \in Range(frames[datasets[Adder].data].columns) :
              frames'[datasets[Adder].data].series[c] = frames[datasets[Adder].data].series[c]

\* C2: a column proposed as N is appended under N if no column is named N,
\* else under N_k for the least k >= 1 such that N_k names no column; the
\* columns already there keep their place, name and values.
C2_CollisionFreeName == [][AppendNamesColumn]_vars

\* Two descriptors proposing "score" against a table without it: "score",
\* then "score_1".
C2_Witness ==
    /\ last.op = "add_column"
    /\ last.error = ""
    /\ last.arg.col = "score"
    /\ last.arg.key = "score_1"
    /\ frames[datasets[last.ds].data].columns = <<"segment", "value", "ts", "score", "score_1">>

\* The table, definition and statistics of dataset e are as before the step.
Untouched(e) ==
    /\ frames'[datasets[e].data] = frames[datasets[e].data]
    /\ definitions'[datasets[e].data_definition] = definitions[datasets[e].data_definition]
    /\ datasets'[e] = datasets[e]

\* The objects the caller built: the tables and definitions of Init.
CallerFrames == <<ReferenceFrame, CurrentFrame>>
CallerDefinitions == <<FullDefinition, PartialDefinition>>

\* C3: an add_descriptor step on one dataset changes the table, definition
\* and statistics of no other dataset, and not the caller's table or
\* definition objects.
C3_ExclusiveOwnership ==
    [][AddingColumn =>
          /\ \A e \in DOMAIN datasets : e # Adder => Untouched(e)
          /\ SubSeq(frames', 1, Len(CallerFrames)) = CallerFrames
          /\ SubSeq(definitions', 1, Len(CallerDefinitions)) = CallerDefinitions]_vars

\* C4: an add_descriptor step on a dataset leaves the dataset it was cut from
\* by subdataset, and the datasets cut from it, as they were.
C4_SubdatasetIndependent ==
    [][AddingColumn =>
          \A e \in DOMAIN datasets :
              (origin[e] = Adder \/ origin[Adder] = e) => Untouched(e)]_vars

\* A dataset and the one cut from it, each with descriptor columns of its own
\* added after the cut.
C4_Witness ==
    /\ Len(datasets) = 2
    /\ origin[2] = 1
    /\ last.op = "add_column"
    /\ last.error = ""
    /\ definitions[datasets[1].data_definition].numerical_descriptors = <<>>
    /\ definitions[datasets[1].data_definition].categorical_descriptors = <<"score_1">>
    /\ definitions[datasets[2].data_definition].numerical_descriptors = <<"score">>
    /\ definitions[datasets[2].data_definition].categorical_descriptors = <<>>

\* The rows of a table whose value in column_name equals label.
Matching(data, column_name, label) ==
    {i \in 1..data.rows : cell_eq(data.series[column_name].data[i], label)}
\* The j-th smallest element of a set of numbers.
Nth(S, j) == CHOOSE i \in S : Cardinality({k \in S : k < i}) = j - 1

IsRowFilter(child, parent, rows) ==
    /\ child.rows = Cardinality(rows)
    /\ child.columns = parent.columns
    /\ \A c \in Range(parent.columns) :
          /\ child.series[c].dtype = parent.series[c].dtype
          /\ Len(child.series[c].data) = Cardinality(rows)
          /\ \A j \in 1..Cardinality(rows) :
                child.series[c].data[j] = parent.series[c].data[Nth(rows, j)]

SubdatasetIsFilter ==
    (last'.op = "subdataset" /\ last'.error = "") =>
        /\ Len(datasets') = Len(datasets) + 1
        /\ IsRowFilter(frames'[datasets'[Len(datasets')].data],
                       frames[datasets[last'.arg.parent].data],
                       Matching(frames[datasets[last'.arg.parent].data],
                                last'.arg.column_name, last'.arg.label))
        /\ datasets'[Len(datasets')].dataset_stats.row_count
              = Cardinality(Matching(frames[datasets[last'.arg.parent].data],
                                     last'.arg.column_name, last'.arg.label))
        /\ definitions'[datasets'[Len(datasets')].data_definition]
              = definitions[datasets[last'.arg.parent].data_definition]

\* C5: subdataset(name, value) yields a dataset whose table is exactly the
\* rows of the parent's table where name equals value, whose row count is
\* their number, and whose definition equals the parent's current one.
C5_SubdatasetFilters == [][SubdatasetIsFilter]_vars

\* 3 of 4 rows match, on a parent that has a descriptor column.
C5_Witness ==
    /\ last.op = "subdataset"
    /\ last.error = ""
    /\ datasets[last.ds].dataset_stats.row_count = 3
    /\ frames[datasets[last.arg.parent].data].rows = 4
    /\ definitions[datasets[last.ds].data_definition].numerical_descriptors = <<"score">>
    /\ Contains(frames[datasets[last.ds].data].columns, "score")

SameRoles(a, b) ==
    /\ a.numerical_columns = b.numerical_columns
    /\ a.categorical_columns = b.categorical_columns
    /\ a.text_columns = b.text_columns
    /\ a.datetime_columns = b.datetime_columns
    /\ a.timestamp = b.timestamp
    /\ a.id_column = b.id_column

LastOf(seq) == seq[Len(seq)]

DescriptorFiled ==
    Appended =>
        /\ definitions'[datasets[Adder].data_definition].numerical_descriptors
              = IF ProposedColumn.type = Numerical
                THEN Append(definitions[datasets[Adder].data_definition].numerical_descriptors,
                            LastOf(frames'[datasets[Adder].data].columns))
                ELSE definitions[datasets[Adder].data_definition].numerical_descriptors
        /\ definitions'[datasets[Adder].data_definition].categorical_descriptors
              = IF ProposedColumn.type = Categorical
                THEN Append(definitions[datasets[Adder].data_definition].categorical_descriptors,
                            LastOf(frames'[datasets[Adder].data].columns))
                ELSE definitions[datasets[Adder].data_definition].categorical_descriptors
        /\ LastOf(frames'[datasets[Adder].data].columns)
              \in DOMAIN datasets'[Adder].dataset_stats.column_stats

DescriptorsAppendOnly ==
    \A i \in DOMAIN definitions :
        /\ IsPrefix(definitions[i].numerical_descriptors, definitions'[i].numerical_descriptors)
        /\ IsPrefix(definitions[i].categorical_descriptors,
                    definitions'[i].categorical_descriptors)
        /\ SameRoles(definitions[i], definitions'[i])

\* C7: an appended column's name goes to numerical_descriptors iff its type is
\* Numerical, to categorical_descriptors iff it is Categorical, to neither
\* otherwise (the column is in the table and the stats all the same); both
\* lists only grow at the end, and no step changes a role set, the timestamp
\* or the id column of a definition.
C7_DescriptorRoles == [][DescriptorFiled /\ DescriptorsAppendOnly]_vars

\* A Text column was appended: in the table and the stats, in neither list.
C7_Witness ==
    \E d \in DOMAIN datasets :
        /\ definitions[datasets[d].data_definition].numerical_descriptors = <<"score">>
        /\ definitions[datasets[d].data_definition].categorical_descriptors = <<"score_1_1">>
        /\ Contains(frames[datasets[d].data].columns, "score_1")
        /\ "score_1" \in DOMAIN datasets[d].dataset_stats.column_stats
        /\ get_column_type(definitions[datasets[d].data_definition], "score_1") = Unknown

\* The step raised inside add_descriptor / add_descriptors.
StepRaised == ~IsNone(call) /\ last'.error # ""

\* C8: a failing step of add_descriptor(s) ends the call and leaves the
\* tables, definitions and statistics (column count included) as they were
\* before it began.
C8_FailedStepChangesNothing ==
    [][StepRaised =>
          /\ IsNone(call')
          /\ frames' = frames
          /\ definitions' = definitions
          /\ datasets' = datasets]_vars

\* The first item of a label map whose count no other item exceeds.
FirstGreatest(label_stats) ==
    CHOOSE i \in 1..Len(label_stats) :
        /\ \A j \in 1..Len(label_stats) :
              label_stats[j].stats.count.count <= label_stats[i].stats.count.count
        /\ \A j \in 1..(i - 1) :
              label_stats[j].stats.count.count < label_stats[i].stats.count.count

ExpectedMostCommon(label_stats) ==
    IF label_stats = <<>> THEN None
    ELSE Some(<<label_stats[FirstGreatest(label_stats)].label,
                label_stats[FirstGreatest(label_stats)].stats>>)

\* C9: most_common returns the label of the greatest count, the first such
\* label in the iteration order of the label map, and None for an empty map.
C9_MostCommonFirstGreatest ==
    (stat_arg.fn = "most_common" /\ ~IsNone(stat_ret)) =>
        Get(stat_ret) = Ok(ExpectedMostCommon(stat_arg.label_stats))

ExpectedInfinite(data) ==
    StatCountValue(Cardinality({i \in 1..Len(data) : data[i] \in {Inf, NegInf}}),
                   IF count(data) = 0 THEN Frac(0, 1)
                   ELSE Frac(Cardinality({i \in 1..Len(data) : data[i] \in {Inf, NegInf}}),
                             count(data)))

\* C10: the statistics of a numerical column complete, with infinite count the
\* number of +inf and -inf values and infinite share that count over the
\* number of non-missing values, 0 when there is no non-missing value.
C10_InfiniteShare ==
    (/\ stat_arg.fn = "collect_stats"
     /\ stat_arg.column_type = Numerical
     /\ stat_arg.column_data.dtype = "float64"
     /\ ~IsNone(stat_ret)) =>
        /\ Get(stat_ret).ok
        /\ Get(Get(stat_ret).v.numerical_stats).infinite
              = ExpectedInfinite(stat_arg.column_data.data)

\* The construction step that succeeded, its arguments and its result.
Constructed == last'.op = "construct" /\ last'.error = ""
UserTable == frames[last'.arg.data]
UserSchema ==
    IF last'.arg.data_definition = 0 THEN None
    ELSE Some(definitions[last'.arg.data_definition])
Resolved == definitions'[datasets'[Len(datasets')].data_definition]

RoleSets == {"numerical_columns", "categorical_columns", "text_columns", "datetime_columns"}
RoleType(role) ==
    CASE role = "numerical_columns" -> Numerical
      [] role = "categorical_columns" -> Categorical
      [] role = "text_columns" -> Text
      [] role = "datetime_columns" -> Datetime

UserRole(user, role) == IF IsNone(user) THEN None ELSE Get(user)[role]
UserTimestamp(user) == IF IsNone(user) THEN None ELSE Get(user).timestamp
PartlyUnset(user) == \E role \in RoleSets : IsNone(UserRole(user, role))

\* The names the user's definition mentions anywhere.
ReservedNames(user) ==
    IF IsNone(user) THEN {}
    ELSE Range(Get(user).timestamp) \cup Range(Get(user).id_column)
         \cup UNION {Range(OrEmpty(Get(user)[role])) : role \in RoleSets}
         \cup Range(Get(user).numerical_descriptors)
         \cup Range(Get(user).categorical_descriptors)

\* The non-reserved columns inferred to be of a type, in table order.
Candidates(data, user, type) ==
    SelectSeq(data.columns,
              LAMBDA c : c \notin ReservedNames(user)
                         /\ infer_column_type(data.series[c]) = Ok(type))

InferredTimestamp(datetime) == IF Len(datetime) = 1 THEN Some(datetime[1]) ELSE None
InferredSet(data, user, role) ==
    IF role = "datetime_columns" /\ Len(Candidates(data, user, Datetime)) = 1
    THEN <<>>
    ELSE Candidates(data, user, RoleType(role))

\* The inferred datetime set as the code merges it: a sole datetime candidate
\* stays in the datetime set when the user named a timestamp of their own.
MergedSet(data, user, role) ==
    IF /\ role = "datetime_columns"
       /\ Len(Candidates(data, user, Datetime)) = 1
       /\ ~IsNone(UserTimestamp(user))
    THEN Candidates(data, user, Datetime)
    ELSE InferredSet(data, user, role)

ResolvedTimestamp(data, user, resolved) ==
    resolved.timestamp
        = IF ~IsNone(UserTimestamp(user)) THEN UserTimestamp(user)
          ELSE InferredTimestamp(Candidates(data, user, Datetime))

AllResolved(resolved) == \A role \in RoleSets : ~IsNone(resolved[role])

MergeRuleAsStated(data, user, resolved) ==
    /\ PartlyUnset(user) =>
          /\ \A role \in RoleSets :
                resolved[role] = IF ~IsNone(UserRole(user, role)) THEN UserRole(user, role)
                                 ELSE Some(InferredSet(data, user, role))
          /\ ResolvedTimestamp(data, user, resolved)
    /\ ~PartlyUnset(user) => resolved = Get(user)
    /\ AllResolved(resolved)

MergeRule(data, user, resolved) ==
    /\ PartlyUnset(user) =>
          /\ \A role \in RoleSets :
                resolved[role] = IF ~IsNone(UserRole(user, role)) THEN UserRole(user, role)
                                 ELSE Some(MergedSet(data, user, role))
          /\ ResolvedTimestamp(data, user, resolved)
    /\ ~PartlyUnset(user) => resolved = Get(user)
    /\ AllResolved(resolved)

\* C6 as stated: a role set the user left unset resolves to the inferred
\* candidates over the non-reserved columns, a sole datetime candidate being
\* the inferred timestamp and excluded from the datetime set; a set the user
\* set is kept; the timestamp is the user's, else the inferred one; a
\* definition with all four sets set is kept as it is; no resolved set is unset.
C6_MergeRuleAsStated == [][Constructed => MergeRuleAsStated(UserTable, UserSchema, Resolved)]_vars

\* C6, amended: as stated, except that a sole datetime candidate is excluded
\* from the resolved datetime set only when it becomes the timestamp; when the
\* user named a timestamp of their own and left the datetime set unset, the
\* sole candidate is the resolved datetime set.
C6_MergeRule == [][Constructed => MergeRule(UserTable, UserSchema, Resolved)]_vars

\* A dataset was made from a definition with a timestamp and no datetime set,
\* over a table with one other datetime column: that column is the datetime set.
C6_Witness ==
    /\ last.op = "construct"
    /\ last.error = ""
    /\ last.arg.data_definition # 0
    /\ definitions[last.arg.data_definition].timestamp = Some("t1")
    /\ IsNone(definitions[last.arg.data_definition].datetime_columns)
    /\ IsNone(definitions[last.arg.data_definition].numerical_columns)
    /\ definitions[datasets[last.ds].data_definition].datetime_columns = Some(<<"t2">>)
    /\ definitions[datasets[last.ds].data_definition].timestamp = Some("t1")
    /\ definitions[datasets[last.ds].data_definition].numerical_columns = Some(<<"num">>)

\* The arguments and the outcome of a classification spec's construction.
Binary == stat_arg.fn = "BinaryClassification"
Built == Get(stat_ret)
OthersOmitted ==
    /\ IsNone(stat_arg.target)
    /\ IsNone(stat_arg.prediction_labels)
    /\ IsNone(stat_arg.prediction_probas)
    /\ IsNone(stat_arg.labels)
    /\ Binary => IsNone(stat_arg.pos_label)
TargetWithPrediction ==
    /\ ~IsNone(stat_arg.target)
    /\ ~IsNone(stat_arg.prediction_labels) \/ ~IsNone(stat_arg.prediction_probas)

DefaultTask ==
    /\ Built.ok
    /\ Built.v.name = stat_arg.name
    /\ Built.v.target = "target"
    /\ IsNone(Built.v.labels)
    /\ IF Binary
       THEN /\ Built.v.prediction_probas = Some("prediction")
            /\ IsNone(Built.v.prediction_labels)
            /\ Built.v.pos_label = 1
       ELSE /\ Built.v.prediction_labels = Some("prediction")
            /\ IsNone(Built.v.prediction_probas)

GivenTask ==
    /\ Built.ok <=> TargetWithPrediction
    /\ ~Built.ok => Built.error = "ValueError"
    /\ Built.ok =>
          /\ Built.v.name = stat_arg.name
          /\ Built.v.target = Get(stat_arg.target)
          /\ Built.v.prediction_labels = stat_arg.prediction_labels
          /\ Built.v.prediction_probas = stat_arg.prediction_probas
          /\ Built.v.labels = stat_arg.labels
          /\ Binary => Built.v.pos_label = IF IsNone(stat_arg.pos_label) THEN 1
                                           ELSE Get(stat_arg.pos_label)

\* C11: a Binary or Multiclass classification spec built with every field
\* other than name omitted is the default one; built with some field given,
\* it is made iff target comes with prediction_labels or prediction_probas,
\* keeping the fields given, pos_label 1 when omitted, and the construction
\* fails with the configuration error (ValueError) otherwise.
C11_TaskConstruction ==
    ~IsNone(stat_ret) => IF OthersOmitted THEN DefaultTask ELSE GivenTask

\* A binary spec made from a target and probabilities alone: pos_label is 1.
C11_Witness ==
    /\ ~IsNone(stat_ret)
    /\ Binary
    /\ stat_arg.target = Some("t")
    /\ IsNone(stat_arg.prediction_labels)
    /\ stat_arg.prediction_probas = Some("proba")
    /\ IsNone(stat_arg.pos_label)
    /\ Built.ok
    /\ Built.v.pos_label = 1

\* The statistics stored for column c are of the kind of the semantic type.
KindMatches(stats, type) ==
    /\ "general_stats" \in DOMAIN stats
    /\ ~IsNone(stats.numerical_stats) <=> type = Numerical
    /\ ~IsNone(stats.categorical_stats) <=> type = Categorical

StatsKindMatchesType(d) ==
    \A c \in Range(frames[datasets[d].data].columns) :
        /\ c \in DOMAIN datasets[d].dataset_stats.column_stats
        /\ KindMatches(datasets[d].dataset_stats.column_stats[c],
                       get_column_type(definitions[datasets[d].data_definition], c))

\* C12: for every column of a dataset's table, after construction and after
\* any descriptor additions, the stored statistics are numerical iff
\* get_column_type gives Numerical, categorical iff it gives Categorical,
\* neither otherwise, with general statistics always there.
C12_StatsKindMatchesType == \A d \in DOMAIN datasets : StatsKindMatchesType(d)

\* An object column without a non-missing value.
Blank(series) ==
    series.dtype = "object" /\ \A i \in 1..Len(series.data) : series.data[i] = NaN

\* The construction has to infer the type of such a column.
InfersBlank(data, user) ==
    /\ PartlyUnset(user)
    /\ \E c \in Range(data.columns) : c \notin ReservedNames(user) /\ Blank(data.series[c])

ConstructionAllOrNothing ==
    last'.op = "construct" =>
        /\ \A c \in Range(UserTable.columns) :
              Blank(UserTable.series[c])
                  => infer_column_type(UserTable.series[c]) = Raise("IndexError")
        /\ InfersBlank(UserTable, UserSchema) =>
              /\ last'.error = "IndexError"
              /\ datasets' = datasets
              /\ definitions' = definitions
              /\ frames' = frames
        /\ ~InfersBlank(UserTable, UserSchema) => last'.error # "IndexError"

\* C13: inferring the type of an object column with no non-missing value is an
\* error (IndexError) and gives no type; a construction that has to infer such
\* a column (not reserved, some role set unset) fails with that error and
\* makes no Dataset; one that does not have to (the column is reserved, or all
\* four role sets are set) does not fail with it.
C13_BlankColumnInference == [][ConstructionAllOrNothing]_vars

\* Over one table with such a column: a construction that reserved it (or had
\* all four role sets) made a Dataset, and one that had to infer it failed.
C13_Witness ==
    /\ Len(datasets) = 1
    /\ datasets[1].data = 1
    /\ Contains(frames[1].columns, "blank")
    /\ last.op = "construct"
    /\ last.arg.data = 1
    /\ last.error = "IndexError"

====
